---- MODULE Spec2Model ----
(***************************************************************************)
(* Google Photos --> Email bridge (gphoto-email.py).                       *)
(*                                                                         *)
(* One run of main() checks the configuration, obtains credentials, lists  *)
(* the album, filters out the ids recorded in uploaded_images.pickle,      *)
(* mails the remaining images four at a time and finally records their ids *)
(* in uploaded_images.pickle.  Any exception raised by a collaborator is   *)
(* not caught anywhere and ends the process.  The script is started again  *)
(* and again (cron); between runs the album and the token may change.      *)
(***************************************************************************)
EXTENDS Integers, Sequences, FiniteSets

\* ------------------------------------------------------------------ bounds
NumIds == 5          \* media ids of the album in Spec
NumPureIds == 3      \* media ids of the listings in SpecPure
MaxLen == 5          \* longest listing in SpecPure

\* --------------------------------------------------------- program constants
BatchSize == 4       \* images[idx:idx+4], idx += 4

Ids == 1..NumIds
PureIds == 1..NumPureIds

Addresses == {"", "frame@example.com"}
AlbumIds == {"", "album-1"}

VARIABLES
    TO_ADDRESS,        \* module constant TO_ADDRESS
    ALBUM_ID,          \* module constant ALBUM_ID
    token_pickle,      \* token.pickle: "absent", "valid" or "expired"
    album,             \* what mediaItems().search returns now: sequence of items
    uploaded_file,     \* uploaded_images.pickle: "absent", "valid" or "truncated"
    uploaded_ids,      \* the set pickled in uploaded_images.pickle when it is valid
    pc,                \* position of the run
    items,             \* get_new_images: items
    uploaded_at_start, \* get_new_images: uploaded_images, as loaded
    images,            \* main: images
    idx,               \* bulk_email_send: idx
    emails,            \* the messages send_email has sent in this run, in order
    creds_calls,       \* calls of get_creds in this run
    fetch_calls,       \* calls of mediaItems().search in this run
    reads,             \* calls of load_uploaded_image_list in this run
    writes,            \* opens of uploaded_images.pickle for writing that truncated it
    sentBefore,        \* ids mailed successfully in earlier runs
    sinceDone,         \* the last run that listed the album returned normally and
                       \* the album is as that run saw it
    repeatRun          \* value of sinceDone when this run started

config == <<TO_ADDRESS, ALBUM_ID>>
persisted == <<token_pickle, uploaded_file, uploaded_ids>>
locals == <<items, uploaded_at_start, images, idx, emails, creds_calls, fetch_calls, reads, writes, repeatRun>>
history == <<sentBefore, sinceDone>>
vars == <<config, persisted, album, pc, locals, history>>

\* ------------------------------------------------------------- data helpers
Min(a, b) == IF a < b THEN a ELSE b

\* A media item of the photo library: id, filename, baseUrl.
Item(i) == [id |-> i, filename |-> <<"IMG", i>>, baseUrl |-> <<"https://lh3/", i>>]

\* '{}=d'.format(item.get('baseUrl'))
DownloadUrl(baseUrl) == Append(baseUrl, "=d")

\* (item.get('id'), item.get('filename'), '{}=d'.format(item.get('baseUrl')))
ImageOf(item) == <<item.id, item.filename, DownloadUrl(item.baseUrl)>>

\* [id for id, _, _ in images]
ImageIds(imgs) == {imgs[i][1] : i \in DOMAIN imgs}

RECURSIVE Flatten(_)
Flatten(batches) ==
    IF batches = <<>> THEN <<>> ELSE Head(batches) \o Flatten(Tail(batches))

\* The n-th smallest element of a finite set of integers.
Nth(S, n) == CHOOSE x \in S : Cardinality({y \in S : y < x}) = n - 1

\* The album holding exactly the ids of S.  Ids are numbered by position in
\* the album, so the listing is in ascending order.
AlbumOf(S) == [n \in 1..Cardinality(S) |-> Item(Nth(S, n))]
Albums == {AlbumOf(S) : S \in SUBSET Ids}
AlbumIdsOf(a) == {a[n].id : n \in DOMAIN a}

\* Every listing over PureIds up to MaxLen items, repeated ids included.
PureListings ==
    UNION {[1..n -> {Item(i) : i \in PureIds}] : n \in 0..MaxLen}

\* ------------------------------------------------------------ pure functions
\* if not TO_ADDRESS or not ALBUM_ID: ... return
ConfigMissingOr(to, alb) == to = "" /\ alb = ""
ConfigMissing(to, alb) == to = "" \/ alb = ""

\* load_uploaded_image_list on a file that unpickles: set() when absent.
LoadIgnoresFile == {}
load_uploaded_image_list == IF uploaded_file = "valid" THEN uploaded_ids ELSE {}

\* The list comprehension of get_new_images: the items are visited in listing
\* order and those whose id is not in uploaded_images are appended.
RECURSIVE NewImagesReversed(_, _)
NewImagesReversed(its, uploaded) ==
    IF its = <<>> THEN <<>>
    ELSE NewImagesReversed(Tail(its), uploaded)
         \o (IF Head(its).id \notin uploaded THEN <<ImageOf(Head(its))>> ELSE <<>>)

RECURSIVE NewImages(_, _)
NewImages(its, uploaded) ==
    IF its = <<>> THEN <<>>
    ELSE (IF Head(its).id \notin uploaded THEN <<ImageOf(Head(its))>> ELSE <<>>)
         \o NewImages(Tail(its), uploaded)

\* images[idx:idx+4]
SliceShort(imgs, i) == SubSeq(imgs, i + 1, Min(i + BatchSize - 1, Len(imgs)))
Slice(imgs, i) == SubSeq(imgs, i + 1, Min(i + BatchSize, Len(imgs)))

\* uploaded_images.update([id for id, _, _ in images])
UpdatedOnlyNew(uploaded, imgs) == ImageIds(imgs)
Updated(uploaded, imgs) == uploaded \cup ImageIds(imgs)

\* if images: bulk_email_send ... update ... else: 'No new images found'
MainBranchAlwaysSend(imgs) == "bulk_email_send"
MainBranch(imgs) == IF imgs # <<>> THEN "bulk_email_send" ELSE "done"

\* ------------------------------------------------------------------- states
Terminal == {"config_error", "fetch_error", "load_error", "delivery_error",
             "persist_error", "done"}

LocalsInit ==
    /\ items = <<>>
    /\ uploaded_at_start = {}
    /\ images = <<>>
    /\ idx = 0
    /\ emails = <<>>
    /\ creds_calls = 0
    /\ fetch_calls = 0
    /\ reads = 0
    /\ writes = 0
    /\ repeatRun = FALSE

Init ==
    /\ TO_ADDRESS = ""
    /\ ALBUM_ID = ""
    /\ token_pickle = "absent"
    /\ uploaded_file = "absent"
    /\ uploaded_ids = {}
    /\ album \in Albums
    /\ pc = "idle"
    /\ LocalsInit
    /\ sentBefore = {}
    /\ sinceDone = FALSE

\* ------------------------------------------------------------------ the run
\* main(): the configuration check.
main ==
    /\ pc = "idle"
    /\ pc' = IF ConfigMissing(TO_ADDRESS, ALBUM_ID) THEN "config_error" ELSE "get_creds"
    /\ repeatRun' = sinceDone
    /\ UNCHANGED <<config, persisted, album, history>>
    /\ UNCHANGED <<items, uploaded_at_start, images, idx, emails, creds_calls, fetch_calls, reads, writes>>

\* get_creds(): a valid token is used as it is; otherwise it is refreshed or
\* obtained interactively and token.pickle is written.
get_creds ==
    /\ pc = "get_creds"
    /\ creds_calls' = creds_calls + 1
    /\ token_pickle' = "valid"
    /\ pc' = "get_new_images"
    /\ UNCHANGED <<config, uploaded_file, uploaded_ids, album, history>>
    /\ UNCHANGED <<items, uploaded_at_start, images, idx, emails, fetch_calls,
                   reads, writes, repeatRun>>

\* get_new_images(): list the album, load the uploaded ids, filter.
get_new_images_body ==
    /\ pc = "get_new_images"
    /\ uploaded_file # "truncated"
    /\ fetch_calls' = fetch_calls + 1
    /\ items' = album
    /\ reads' = reads + 1
    /\ uploaded_at_start' = load_uploaded_image_list
    /\ images' = NewImages(items', uploaded_at_start')
    /\ UNCHANGED <<config, persisted, album, history>>
    /\ UNCHANGED <<idx, emails, creds_calls, writes, repeatRun>>

get_new_images ==
    /\ get_new_images_body
    /\ pc' = MainBranch(images')

\* mediaItems().search(...).execute() raises.
get_new_images_fetch_error ==
    /\ pc = "get_new_images"
    /\ fetch_calls' = fetch_calls + 1
    /\ pc' = "fetch_error"
    /\ UNCHANGED <<config, persisted, album, history>>
    /\ UNCHANGED <<items, uploaded_at_start, images, idx, emails, creds_calls, reads, writes, repeatRun>>

\* pickle.load raises on a file that holds no complete pickle.
get_new_images_load_error ==
    /\ pc = "get_new_images"
    /\ uploaded_file = "truncated"
    /\ fetch_calls' = fetch_calls + 1
    /\ items' = album
    /\ reads' = reads + 1
    /\ pc' = "load_error"
    /\ UNCHANGED <<config, persisted, album, history>>
    /\ UNCHANGED <<uploaded_at_start, images, idx, emails, creds_calls, writes, repeatRun>>

\* bulk_email_send: one pass of the loop body, create_email and send_email
\* both returning.
bulk_email_send_batch ==
    /\ pc = "bulk_email_send"
    /\ Slice(images, idx) # <<>>
    /\ emails' = Append(emails, Slice(images, idx))
    /\ idx' = idx + BatchSize
    /\ UNCHANGED <<config, persisted, album, pc, history>>
    /\ UNCHANGED <<items, uploaded_at_start, images, creds_calls,
                   fetch_calls, reads, writes, repeatRun>>

\* bulk_email_send: get_image_data, MIMEImage or send_email raises.
bulk_email_send_error ==
    /\ pc = "bulk_email_send"
    /\ Slice(images, idx) # <<>>
    /\ pc' = "delivery_error"
    /\ UNCHANGED <<config, persisted, album, history, locals>>

\* bulk_email_send: the loop condition is false.
bulk_email_send_return ==
    /\ pc = "bulk_email_send"
    /\ Slice(images, idx) = <<>>
    /\ pc' = "update_uploaded_image_list"
    /\ UNCHANGED <<config, persisted, album, history, locals>>

\* update_uploaded_image_list(images): load, update, open 'wb', dump.
update_uploaded_image_list ==
    /\ pc = "update_uploaded_image_list"
    /\ uploaded_file # "truncated"
    /\ reads' = reads + 1
    /\ writes' = writes + 1
    /\ uploaded_file' = "valid"
    /\ uploaded_ids' = Updated(load_uploaded_image_list, images)
    /\ pc' = "done"
    /\ UNCHANGED <<config, token_pickle, album, history>>
    /\ UNCHANGED <<items, uploaded_at_start, images, idx, emails, creds_calls, fetch_calls, repeatRun>>

\* open('uploaded_images.pickle', 'wb') raises: the file is as it was.
update_uploaded_image_list_open_error ==
    /\ pc = "update_uploaded_image_list"
    /\ uploaded_file # "truncated"
    /\ reads' = reads + 1
    /\ pc' = "persist_error"
    /\ UNCHANGED <<config, persisted, album, history>>
    /\ UNCHANGED <<items, uploaded_at_start, images, idx, emails, creds_calls, fetch_calls, writes, repeatRun>>

\* open(..., 'wb') has truncated the file and pickle.dump (or the flush on
\* close) raises: the file holds no complete pickle.
update_uploaded_image_list_dump_error ==
    /\ pc = "update_uploaded_image_list"
    /\ uploaded_file # "truncated"
    /\ reads' = reads + 1
    /\ writes' = writes + 1
    /\ uploaded_file' = "truncated"
    /\ uploaded_ids' = {}
    /\ pc' = "persist_error"
    /\ UNCHANGED <<config, token_pickle, album, history>>
    /\ UNCHANGED <<items, uploaded_at_start, images, idx, emails, creds_calls, fetch_calls, repeatRun>>

\* The process ends: main returned or an exception reached the top level.
exit ==
    /\ pc \in Terminal
    /\ pc' = "idle"
    /\ sentBefore' = sentBefore \cup ImageIds(Flatten(emails))
    /\ sinceDone' = IF pc = "done" THEN TRUE
                    ELSE IF pc = "config_error" THEN sinceDone ELSE FALSE
    /\ items' = <<>>
    /\ uploaded_at_start' = {}
    /\ images' = <<>>
    /\ idx' = 0
    /\ emails' = <<>>
    /\ creds_calls' = 0
    /\ fetch_calls' = 0
    /\ reads' = 0
    /\ writes' = 0
    /\ repeatRun' = FALSE
    /\ UNCHANGED <<config, persisted, album>>

\* ------------------------------------------------------------- environment
\* Between runs a photo is added to the album or removed from it.
album_change ==
    /\ pc = "idle"
    /\ \E i \in Ids :
          album' = AlbumOf(IF i \in AlbumIdsOf(album)
                           THEN AlbumIdsOf(album) \ {i}
                           ELSE AlbumIdsOf(album) \cup {i})
    /\ sinceDone' = FALSE
    /\ UNCHANGED <<config, persisted, pc, locals, sentBefore>>

\* Between runs the access token expires.
token_expire ==
    /\ pc = "idle"
    /\ token_pickle = "valid"
    /\ token_pickle' = "expired"
    /\ UNCHANGED <<config, uploaded_file, uploaded_ids, album, pc, locals, history>>

\* Between runs the user edits TO_ADDRESS and ALBUM_ID in the script.
edit_config ==
    /\ pc = "idle"
    /\ \E to \in Addresses, alb \in AlbumIds :
          /\ <<to, alb>> # config
          /\ TO_ADDRESS' = to
          /\ ALBUM_ID' = alb
    /\ UNCHANGED <<persisted, album, pc, locals, history>>

Next ==
    \/ main
    \/ get_creds
    \/ get_new_images
    \/ get_new_images_fetch_error
    \/ get_new_images_load_error
    \/ bulk_email_send_batch
    \/ bulk_email_send_error
    \/ bulk_email_send_return
    \/ update_uploaded_image_list
    \/ update_uploaded_image_list_open_error
    \/ update_uploaded_image_list_dump_error
    \/ exit
    \/ album_change
    \/ token_expire
    \/ edit_config

Spec == Init /\ [][Next]_vars

\* ------------------------------------------------- the functions on their own
\* get_new_images and bulk_email_send applied to every listing and every
\* stored set, no collaborator failing.
InitPure ==
    /\ TO_ADDRESS = "frame@example.com"
    /\ ALBUM_ID = "album-1"
    /\ token_pickle = "valid"
    /\ album \in PureListings
    /\ \E s \in SUBSET PureIds :
          /\ uploaded_ids = s
          /\ uploaded_file \in (IF s = {} THEN {"absent", "valid"} ELSE {"valid"})
    /\ pc = "get_new_images"
    /\ LocalsInit
    /\ sentBefore = {}
    /\ sinceDone = FALSE

\* get_new_images, its result handed to bulk_email_send whatever it is.
apply_get_new_images ==
    /\ get_new_images_body
    /\ pc' = "bulk_email_send"

NextPure ==
    \/ apply_get_new_images
    \/ bulk_email_send_batch
    \/ bulk_email_send_return

SpecPure == InitPure /\ [][NextPure]_vars

\* ------------------------------------------------------------------- claims
Delivered == ImageIds(Flatten(emails))

\* C1: a run that starts right after a run that returned normally, over the
\* same album listing, computes an empty delta, sends no email and returns
\* normally.
C1_Idempotence ==
    repeatRun =>
        /\ images = <<>>
        /\ emails = <<>>
        /\ reads > 0 => pc = "done"
C1_Witness ==
    /\ repeatRun
    /\ pc = "done"
    /\ fetch_calls = 1
    /\ Len(items) = NumIds
    /\ sentBefore = AlbumIdsOf(items)

\* C2: when delivery fails on batch k, the ids the run has committed to
\* uploaded_images.pickle are exactly those of batches 1..k-1.
C2_CommitPrefixOnDeliveryError ==
    pc = "delivery_error" =>
        /\ uploaded_file # "truncated"
        /\ load_uploaded_image_list = uploaded_at_start \cup Delivered

\* C3: no id mailed successfully in an earlier run is mailed again.
C3_NeverResent == Delivered \cap sentBefore = {}

\* C4: in a run with a non-empty delta that returns normally the file is
\* written once, after the last batch was sent, and holds the set read at the
\* start of the run united with the ids of the delta.
C4_CommitOnSuccess ==
    /\ writes <= 1
    /\ writes > 0 => /\ Flatten(emails) = images
                     /\ pc \in {"done", "persist_error"}
    /\ (pc = "done" /\ images # <<>>) =>
           /\ writes = 1
           /\ Flatten(emails) = images
           /\ uploaded_file = "valid"
           /\ uploaded_ids = uploaded_at_start \cup ImageIds(images)
C4_Witness ==
    /\ pc = "done"
    /\ Len(emails) = 1
    /\ uploaded_at_start # {}
    /\ writes = 1

\* C5: an id that is in the persisted set stays in the persisted set.
C5_SeenSetMonotone ==
    [][/\ uploaded_file # "truncated" => uploaded_file' # "truncated"
       /\ load_uploaded_image_list \subseteq load_uploaded_image_list']_vars

\* The positions of the listing whose id is not in the loaded set.
Kept == {k \in DOMAIN items : items[k].id \notin uploaded_at_start}
C6_DeltaIsFilter ==
    reads > 0 =>
        /\ Len(images) = Cardinality(Kept)
        /\ \A j \in DOMAIN images :
              /\ images[j][1] = items[Nth(Kept, j)].id
              /\ images[j][2] = items[Nth(Kept, j)].filename
              /\ images[j][3] = Append(items[Nth(Kept, j)].baseUrl, "=d")

\* C6: the delta is the listed items whose id is not in the loaded set, in
\* listing order, and computing it leaves the album and the file as they were.
C6_Delta ==
    /\ []C6_DeltaIsFilter
    /\ [][(pc = "get_new_images" /\ reads' > reads) =>
            /\ UNCHANGED <<album, uploaded_file, uploaded_ids>>
            /\ items' = album
            /\ uploaded_at_start' = load_uploaded_image_list]_vars
C6_Witness ==
    /\ reads > 0
    /\ Len(items) = MaxLen
    /\ Len(images) = 3
    /\ images[1][1] > images[2][1]
    /\ images[2][1] = images[3][1]

\* C7: the loop sends ceil(L/4) emails, all of 4 images but the last, which
\* has 1 to 4; the emails in order make up the input; no input, no email.
C7_Batching ==
    pc = "update_uploaded_image_list" =>
        LET L == Len(images)
            n == Len(emails)
        IN  /\ n = (L + BatchSize - 1) \div BatchSize
            /\ \A b \in 1..(n - 1) : Len(emails[b]) = BatchSize
            /\ n > 0 => Len(emails[n]) \in 1..BatchSize
            /\ Flatten(emails) = images
            /\ L = 0 => emails = <<>>
C7_Witness ==
    /\ pc = "update_uploaded_image_list"
    /\ Len(images) = BatchSize + 1
    /\ Len(emails) = 2

\* C8: with an empty delta the run returns normally, has sent nothing and
\* has not written uploaded_images.pickle.
C8_NothingNew ==
    (reads > 0 /\ pc # "load_error" /\ images = <<>>) =>
        /\ pc = "done"
        /\ emails = <<>>
        /\ writes = 0
        /\ load_uploaded_image_list = uploaded_at_start
C8_Witness ==
    /\ pc = "done"
    /\ images = <<>>
    /\ Len(items) >= 2
    /\ uploaded_at_start # {}

\* C9: after a failed write of uploaded_images.pickle the file still loads
\* as the set it held before the run.
C9_PersistErrorKeepsStore ==
    pc = "persist_error" =>
        /\ uploaded_file # "truncated"
        /\ load_uploaded_image_list = uploaded_at_start

\* What a run that ended on the configuration check has done: nothing.
C10_ConfigErrorState ==
    pc = "config_error" =>
        /\ creds_calls = 0
        /\ fetch_calls = 0
        /\ reads = 0
        /\ writes = 0
        /\ emails = <<>>
\* C10: with TO_ADDRESS or ALBUM_ID empty the run ends at once: no
\* credential, no listing, no email, no read or write of the file, and
\* token.pickle and uploaded_images.pickle are as they were.
C10_MissingConfig ==
    /\ []C10_ConfigErrorState
    /\ [][(pc = "idle" /\ pc' # "idle" /\ (TO_ADDRESS = "" \/ ALBUM_ID = "")) =>
            /\ pc' = "config_error"
            /\ UNCHANGED persisted]_vars
    /\ [][pc = "config_error" =>
            /\ pc' \in {"config_error", "idle"}
            /\ UNCHANGED persisted]_vars
C10_Witness ==
    /\ pc = "config_error"
    /\ TO_ADDRESS # ""
    /\ ALBUM_ID = ""
    /\ token_pickle = "expired"
    /\ uploaded_ids # {}

====
